---- MODULE Spec2Model ----
(***************************************************************************)
(* State-machine model of minimi.py: the BoardManager, its entity records, *)
(* the process-wide identifier counter and the JSON export/import.         *)
(*                                                                         *)
(* Python values are modelled as follows.                                  *)
(*   Optional[T]      None is <<>>, a present value v is <<v>>             *)
(*   list             a sequence                                           *)
(*   dict (ordered)   a sequence of entries [key |-> k, val |-> v] in      *)
(*                    insertion order (BoardManager.boards and .users,     *)
(*                    whose order nothing reads, are functions)            *)
(*   dataclass        a record with the dataclass's fields                 *)
(*   isoformat string the clock reading it was formatted from              *)
(*   str of an int    the sequence of its decimal digits                   *)
(*   KeyError         the value "KeyError" in call.err                     *)
(***************************************************************************)
EXTENDS Integers, Sequences, FiniteSets, TLC

VARIABLES
    _id_counter,   \* the next value itertools.count(1) yields
    boards,        \* BoardManager.boards : board id -> Board
    users,         \* BoardManager.users  : user id -> User
    now,           \* the reading datetime.utcnow() gives
    call,          \* the last call: its operation, arguments and outcome
    ret,           \* what the last call returned
    returned       \* the ids the successful create_* / add_comment calls returned

vars == <<_id_counter, boards, users, now, call, ret, returned>>

\* Bounds of the model: the identifiers drawn in the behaviours of each specification
\* and the readings of the clock.
MaxId == 4
MaxSprintsId == 3
MaxIssuesId == 3
MaxErrorsId == 2
MaxFieldsId == 3
MaxFiltersId == 3
MaxUpdatesId == 3
MaxTime == 3

-----------------------------------------------------------------------------
(* Python values *)

None == <<>>

Some(v) == <<v>>

\* x in s, for a list s
In(x, s) == \E n \in 1..Len(s) : s[n] = x

\* list.remove(x): drops the first occurrence of x
ListRemove(s, x) ==
    LET n == CHOOSE n \in 1..Len(s) : s[n] = x /\ \A m \in 1..(n - 1) : s[m] # x
    IN  [m \in 1..(Len(s) - 1) |-> IF m < n THEN s[m] ELSE s[m + 1]]

\* the keys of a dict
Keys(d) == {d[n].key : n \in 1..Len(d)}

\* k in d
Has(d, k) == k \in Keys(d)

\* d[k]
Get(d, k) == d[CHOOSE n \in 1..Len(d) : d[n].key = k].val

\* d[k] = v: a new key goes last, a present key keeps its place
Put(d, k, v) ==
    IF Has(d, k)
    THEN [n \in 1..Len(d) |-> IF d[n].key = k THEN [key |-> k, val |-> v] ELSE d[n]]
    ELSE Append(d, [key |-> k, val |-> v])

\* d.pop(k, None)
Pop(d, k) == SelectSeq(d, LAMBDA e : e.key # k)

\* list(d.values())
Values(d) == [n \in 1..Len(d) |-> d[n].val]

\* truthiness of an Optional[str] holding a timestamp
Truthy(x) == x # None

-----------------------------------------------------------------------------
(* The dataclasses *)

User(id, name) == [id |-> id, name |-> name]

Comment(id, author_id, body, created_at) ==
    [id |-> id, author_id |-> author_id, body |-> body, created_at |-> created_at]

IssueAttrs ==
    {"id", "title", "description", "status", "assignee_id", "labels", "priority",
     "comments", "created_at", "updated_at"}

DefaultStatus == "todo"

DefaultPriority == 100

Sprint(id, name) ==
    [id |-> id, name |-> name, start_at |-> None, end_at |-> None,
     issues |-> <<>>, active |-> FALSE]

Board(id, name) ==
    [id |-> id, name |-> name, projects |-> <<>>, issues |-> <<>>, sprints |-> <<>>]

-----------------------------------------------------------------------------
(* The identifier generator *)

_next_id == _id_counter

\* a generator that yields the same value again
AdvanceStuck == _id_counter

\* the counter after one next()
Advance == _id_counter + 1

-----------------------------------------------------------------------------
(* Bookkeeping of the call that was made *)

\* what call records for an identifier parameter the method called does not have: a
\* number that is never an identifier (the counter starts at 1) nor passed as one
NoArg == -1

\* a call with further arguments worth recording
CalledWith(op, b, i, s, err, args) ==
    [op |-> op, b |-> b, i |-> i, s |-> s, err |-> err, args |-> args]

Called(op, b, i, s, err) == CalledWith(op, b, i, s, err, None)

\* a lookup that swallows the missing key
RaisesNothing(op, b, i, s) ==
    /\ call' = Called(op, b, i, s, "ok")
    /\ ret' = None
    /\ UNCHANGED <<_id_counter, boards, users, now, returned>>

\* a lookup that fails only after an identifier was drawn
RaisesAfterDraw(op, b, i, s) ==
    /\ call' = Called(op, b, i, s, "KeyError")
    /\ ret' = None
    /\ _id_counter' = Advance
    /\ UNCHANGED <<boards, users, now, returned>>

\* the call raised KeyError before it changed anything
Raises(op, b, i, s) ==
    /\ call' = Called(op, b, i, s, "KeyError")
    /\ ret' = None
    /\ UNCHANGED <<_id_counter, boards, users, now, returned>>

\* boards with board b replaced
WithBoard(b, board) == [boards EXCEPT ![b] = board]

\* boards with issue i of board b replaced
WithIssue(b, i, issue) ==
    [boards EXCEPT ![b].issues = Put(boards[b].issues, i, issue)]

\* boards with sprint s of board b replaced
WithSprint(b, s, sprint) ==
    [boards EXCEPT ![b].sprints = Put(boards[b].sprints, s, sprint)]

-----------------------------------------------------------------------------
(* The clock: utcnow() never goes back; time passes between two calls *)

Tick ==
    /\ now' = now + 1
    /\ call' = Called("(time passes)", NoArg, NoArg, NoArg, "ok")
    /\ ret' = None
    /\ UNCHANGED <<_id_counter, boards, users, returned>>

-----------------------------------------------------------------------------
(* BoardManager *)

Init ==
    /\ _id_counter = 1
    /\ boards = <<>>
    /\ users = <<>>
    /\ now = 1
    /\ call = Called("__init__", NoArg, NoArg, NoArg, "ok")
    /\ ret = None
    /\ returned = <<>>

create_board(name) ==
    /\ boards' = (_next_id :> Board(_next_id, name)) @@ boards
    /\ _id_counter' = Advance
    /\ call' = Called("create_board", NoArg, NoArg, NoArg, "ok")
    /\ ret' = _next_id
    /\ returned' = Append(returned, _next_id)
    /\ UNCHANGED <<users, now>>

add_project(b, project_name) ==
    IF b \notin DOMAIN boards
    THEN Raises("add_project", b, NoArg, NoArg)
    ELSE /\ boards' =
              IF ~In(project_name, boards[b].projects)
              THEN [boards EXCEPT ![b].projects = Append(@, project_name)]
              ELSE boards
         /\ call' = Called("add_project", b, NoArg, NoArg, "ok")
         /\ ret' = None
         /\ UNCHANGED <<_id_counter, users, now, returned>>

create_user(name) ==
    /\ users' = (_next_id :> User(_next_id, name)) @@ users
    /\ _id_counter' = Advance
    /\ call' = Called("create_user", NoArg, NoArg, NoArg, "ok")
    /\ ret' = _next_id
    /\ returned' = Append(returned, _next_id)
    /\ UNCHANGED <<boards, now>>

\* labels or []
LabelsOrEmpty(labels) == IF labels = None \/ labels[1] = <<>> THEN <<>> ELSE labels[1]

\* Issue(id=..., title=..., description=..., assignee_id=..., labels=..., priority=...):
\* created_at and updated_at are two readings of the clock, t1 then t2
NewIssue(id, title, description, assignee_id, labels, priority, t1, t2) ==
    [id |-> id, title |-> title, description |-> description,
     status |-> DefaultStatus, assignee_id |-> assignee_id,
     labels |-> LabelsOrEmpty(labels), priority |-> priority, comments |-> <<>>,
     created_at |-> t1, updated_at |-> t2]

create_issue(b, title, description, assignee_id, labels, priority) ==
    IF b \notin DOMAIN boards
    THEN Raises("create_issue", b, NoArg, NoArg)
    ELSE /\ \E t2 \in {now, now + 1} :
               /\ boards' = WithIssue(b, _next_id,
                      NewIssue(_next_id, title, description, assignee_id, labels,
                               priority, now, t2))
               /\ now' = t2
         /\ _id_counter' = Advance
         /\ call' = Called("create_issue", b, NoArg, NoArg, "ok")
         /\ ret' = _next_id
         /\ returned' = Append(returned, _next_id)
         /\ UNCHANGED users

\* self.boards[board_id].issues[issue_id] can be read
CanGetIssue(b, i) == b \in DOMAIN boards /\ Has(boards[b].issues, i)

get_issue(b, i) ==
    IF ~CanGetIssue(b, i)
    THEN Raises("get_issue", b, i, NoArg)
    ELSE /\ call' = Called("get_issue", b, i, NoArg, "ok")
         /\ ret' = Get(boards[b].issues, i)
         /\ UNCHANGED <<_id_counter, boards, users, now, returned>>

\* the loop without the hasattr test: every key becomes an attribute
SetAttrsUnchecked(issue, fields) ==
    [k \in IssueAttrs \cup DOMAIN fields |->
        IF k \in DOMAIN fields THEN fields[k] ELSE issue[k]]

\* the loop of update_issue: setattr for the keys the Issue has, the others skipped
SetAttrs(issue, fields) ==
    [k \in IssueAttrs |-> IF k \in DOMAIN fields THEN fields[k] ELSE issue[k]]

\* update_issue without the refresh of updated_at
UpdatedStale(issue, fields, t) == SetAttrs(issue, fields)

\* the Issue after update_issue(**fields) at clock reading t
Updated(issue, fields, t) == [SetAttrs(issue, fields) EXCEPT !.updated_at = t]

\* update_issue and its wrappers, op naming the method that was called
UpdateAs(op, b, i, fields) ==
    IF ~CanGetIssue(b, i)
    THEN Raises(op, b, i, NoArg)
    ELSE /\ boards' = WithIssue(b, i, Updated(Get(boards[b].issues, i), fields, now))
         /\ call' = CalledWith(op, b, i, NoArg, "ok", fields)
         /\ ret' = None
         /\ UNCHANGED <<_id_counter, users, now, returned>>

update_issue(b, i, fields) == UpdateAs("update_issue", b, i, fields)

\* delete_issue without the loop over the sprints
SprintKept(sprint, i) == sprint

\* the sprint after delete_issue's loop body
SprintWithout(sprint, i) ==
    IF In(i, sprint.issues)
    THEN [sprint EXCEPT !.issues = ListRemove(@, i)]
    ELSE sprint

\* the board after delete_issue
Deleted(board, i) ==
    [board EXCEPT
        !.issues = Pop(@, i),
        !.sprints = [n \in 1..Len(@) |->
                        [key |-> @[n].key, val |-> SprintWithout(@[n].val, i)]]]

\* a pop without its default: an issue_id that is not stored raises as well
DeleteRaisesIfAbsent(b, i) == ~CanGetIssue(b, i)

\* delete_issue raises on self.boards[board_id] only: pop(issue_id, None) never does
DeleteRaises(b, i) == b \notin DOMAIN boards

delete_issue(b, i) ==
    IF DeleteRaises(b, i)
    THEN Raises("delete_issue", b, i, NoArg)
    ELSE /\ boards' = WithBoard(b, Deleted(boards[b], i))
         /\ call' = Called("delete_issue", b, i, NoArg, "ok")
         /\ ret' = None
         /\ UNCHANGED <<_id_counter, users, now, returned>>

\* filters whose labels test passes an issue that holds any one of the given labels
FilteredAnyLabel(d, status, assignee_id, labels) ==
    SelectSeq(d, LAMBDA e :
        /\ (status # None /\ status[1] # "") => e.val.status = status[1]
        /\ assignee_id # None => e.val.assignee_id = assignee_id
        /\ (labels # None /\ labels[1] # <<>>) =>
               \E n \in 1..Len(labels[1]) : In(labels[1][n], e.val.labels))

\* the issues left by the filters of list_issues, as entries of the board's dict: the
\* key of an entry stands for the identity of the Issue object that is returned
Filtered(d, status, assignee_id, labels) ==
    LET byStatus ==
            IF status # None /\ status[1] # ""
            THEN SelectSeq(d, LAMBDA e : e.val.status = status[1])
            ELSE d
        byAssignee ==
            IF assignee_id # None
            THEN SelectSeq(byStatus, LAMBDA e : e.val.assignee_id = assignee_id)
            ELSE byStatus
    IN  IF labels # None /\ labels[1] # <<>>
        THEN SelectSeq(byAssignee,
                 LAMBDA e : \A n \in 1..Len(labels[1]) : In(labels[1][n], e.val.labels))
        ELSE byAssignee

\* a sort that puts e before the entries of its own priority
InsertBeforeEqual(sorted, e) ==
    LET n == Cardinality({m \in 1..Len(sorted) : sorted[m].val.priority < e.val.priority})
    IN  SubSeq(sorted, 1, n) \o <<e>> \o SubSeq(sorted, n + 1, Len(sorted))

\* one step of the stable sort: e goes behind every entry whose priority is not larger
InsertByPriority(sorted, e) ==
    LET n == Cardinality({m \in 1..Len(sorted) : sorted[m].val.priority <= e.val.priority})
    IN  SubSeq(sorted, 1, n) \o <<e>> \o SubSeq(sorted, n + 1, Len(sorted))

RECURSIVE SortByPriority(_)
\* issues.sort(key=lambda i: i.priority): ascending and stable
SortByPriority(s) ==
    IF s = <<>>
    THEN <<>>
    ELSE InsertByPriority(SortByPriority(SubSeq(s, 1, Len(s) - 1)), s[Len(s)])

\* what list_issues returns
Listed(d, status, assignee_id, labels, sort_by_priority) ==
    IF sort_by_priority
    THEN SortByPriority(Filtered(d, status, assignee_id, labels))
    ELSE Filtered(d, status, assignee_id, labels)

list_issues(b, status, assignee_id, labels, sort_by_priority) ==
    IF b \notin DOMAIN boards
    THEN Raises("list_issues", b, NoArg, NoArg)
    ELSE /\ call' = CalledWith("list_issues", b, NoArg, NoArg, "ok",
                        [status |-> status, assignee_id |-> assignee_id,
                         labels |-> labels, sort_by_priority |-> sort_by_priority])
         /\ ret' = Listed(boards[b].issues, status, assignee_id, labels, sort_by_priority)
         /\ UNCHANGED <<_id_counter, boards, users, now, returned>>

assign_issue(b, i, user_id) == UpdateAs("assign_issue", b, i, [assignee_id |-> user_id])

\* add_label that stamps updated_at also when the label is already there
LabelledAnyway(issue, label, t) ==
    IF ~In(label, issue.labels)
    THEN [issue EXCEPT !.labels = Append(@, label), !.updated_at = t]
    ELSE [issue EXCEPT !.updated_at = t]

\* the Issue after add_label at clock reading t
Labelled(issue, label, t) ==
    IF ~In(label, issue.labels)
    THEN [issue EXCEPT !.labels = Append(@, label), !.updated_at = t]
    ELSE issue

add_label(b, i, label) ==
    IF ~CanGetIssue(b, i)
    THEN Raises("add_label", b, i, NoArg)
    ELSE /\ boards' = WithIssue(b, i, Labelled(Get(boards[b].issues, i), label, now))
         /\ call' = CalledWith("add_label", b, i, NoArg, "ok", label)
         /\ ret' = None
         /\ UNCHANGED <<_id_counter, users, now, returned>>

\* the Issue after remove_label at clock reading t
Unlabelled(issue, label, t) ==
    IF In(label, issue.labels)
    THEN [issue EXCEPT !.labels = ListRemove(@, label), !.updated_at = t]
    ELSE issue

remove_label(b, i, label) ==
    IF ~CanGetIssue(b, i)
    THEN Raises("remove_label", b, i, NoArg)
    ELSE /\ boards' = WithIssue(b, i, Unlabelled(Get(boards[b].issues, i), label, now))
         /\ call' = CalledWith("remove_label", b, i, NoArg, "ok", label)
         /\ ret' = None
         /\ UNCHANGED <<_id_counter, users, now, returned>>

\* the Comment is stamped at reading now, the Issue's updated_at at the later reading t2
add_comment(b, i, author_id, body) ==
    IF ~CanGetIssue(b, i)
    THEN Raises("add_comment", b, i, NoArg)
    ELSE /\ \E t2 \in {now, now + 1} :
               /\ boards' =
                      LET issue == Get(boards[b].issues, i)
                      IN  WithIssue(b, i,
                              [issue EXCEPT
                                  !.comments =
                                      Append(@, Comment(_next_id, author_id, body, now)),
                                  !.updated_at = t2])
               /\ now' = t2
         /\ _id_counter' = Advance
         /\ call' = Called("add_comment", b, i, NoArg, "ok")
         /\ ret' = _next_id
         /\ returned' = Append(returned, _next_id)
         /\ UNCHANGED users

move_issue(b, i, new_status) == UpdateAs("move_issue", b, i, [status |-> new_status])

prioritize_issue(b, i, priority) == UpdateAs("prioritize_issue", b, i, [priority |-> priority])

create_sprint(b, name) ==
    IF b \notin DOMAIN boards
    THEN Raises("create_sprint", b, NoArg, NoArg)
    ELSE /\ boards' = WithSprint(b, _next_id, Sprint(_next_id, name))
         /\ _id_counter' = Advance
         /\ call' = Called("create_sprint", b, NoArg, NoArg, "ok")
         /\ ret' = _next_id
         /\ returned' = Append(returned, _next_id)
         /\ UNCHANGED <<users, now>>

\* self.boards[board_id].sprints[sprint_id] can be read
CanGetSprint(b, s) == b \in DOMAIN boards /\ Has(boards[b].sprints, s)

\* a sprint operation that replaces sprint s of board b by sprint
SprintOp(op, b, s, i, sprint) ==
    /\ boards' = WithSprint(b, s, sprint)
    /\ call' = Called(op, b, i, s, "ok")
    /\ ret' = None
    /\ UNCHANGED <<_id_counter, users, now, returned>>

\* add_issue_to_sprint without the test that the board holds the issue
LinkedUnchecked(board, sprint, i) ==
    IF ~In(i, sprint.issues)
    THEN [sprint EXCEPT !.issues = Append(@, i)]
    ELSE sprint

\* add_issue_to_sprint without the test that the sprint does not list the issue yet
LinkedAgain(board, sprint, i) ==
    IF Has(board.issues, i)
    THEN [sprint EXCEPT !.issues = Append(@, i)]
    ELSE sprint

\* the sprint after add_issue_to_sprint
Linked(board, sprint, i) ==
    IF ~In(i, sprint.issues) /\ Has(board.issues, i)
    THEN [sprint EXCEPT !.issues = Append(@, i)]
    ELSE sprint

add_issue_to_sprint(b, s, i) ==
    IF ~CanGetSprint(b, s)
    THEN Raises("add_issue_to_sprint", b, i, s)
    ELSE SprintOp("add_issue_to_sprint", b, s, i,
             Linked(boards[b], Get(boards[b].sprints, s), i))

remove_issue_from_sprint(b, s, i) ==
    IF ~CanGetSprint(b, s)
    THEN Raises("remove_issue_from_sprint", b, i, s)
    ELSE LET sprint == Get(boards[b].sprints, s)
         IN  SprintOp("remove_issue_from_sprint", b, s, i,
                 IF In(i, sprint.issues)
                 THEN [sprint EXCEPT !.issues = ListRemove(@, i)]
                 ELSE sprint)

\* start_sprint that stamps start_at on every call
StartAtReset(start_at, t) == Some(t)

\* sprint.start_at or utcnow().isoformat()
StartAt(start_at, t) == IF Truthy(start_at) THEN start_at ELSE Some(t)

\* the sprint after start_sprint at clock reading t
Started(sprint, t) ==
    [sprint EXCEPT !.active = TRUE, !.start_at = StartAt(sprint.start_at, t)]

start_sprint(b, s) ==
    IF ~CanGetSprint(b, s)
    THEN Raises("start_sprint", b, NoArg, s)
    ELSE SprintOp("start_sprint", b, s, NoArg, Started(Get(boards[b].sprints, s), now))

\* close_sprint that clears active and forgets the stamp
ClosedUnstamped(sprint, t) == [sprint EXCEPT !.active = FALSE]

\* the sprint after close_sprint at clock reading t
Closed(sprint, t) == [sprint EXCEPT !.active = FALSE, !.end_at = Some(t)]

close_sprint(b, s) ==
    IF ~CanGetSprint(b, s)
    THEN Raises("close_sprint", b, NoArg, s)
    ELSE SprintOp("close_sprint", b, s, NoArg, Closed(Get(boards[b].sprints, s), now))

-----------------------------------------------------------------------------
(* export_board / import_board *)

Digits == <<"0", "1", "2", "3", "4", "5", "6", "7", "8", "9">>

RECURSIVE json_key(_)
\* json.dumps writes an int key of a dict as the string of its decimal digits
json_key(n) ==
    IF n < 10
    THEN <<Digits[n + 1]>>
    ELSE json_key(n \div 10) \o <<Digits[(n % 10) + 1]>>

DigitValue(c) == CHOOSE v \in 0..9 : Digits[v + 1] = c

RECURSIVE int(_)
\* int(iid) of a string of decimal digits
int(str) ==
    IF Len(str) = 1
    THEN DigitValue(str[1])
    ELSE 10 * int(SubSeq(str, 1, Len(str) - 1)) + DigitValue(str[Len(str)])

\* {k: asdict(v) for k, v in d.items()} as json.dumps writes it: asdict turns a
\* dataclass into the dict of its fields, which is the record it already is here
JsonDict(d) == [n \in 1..Len(d) |-> [key |-> json_key(d[n].key), val |-> d[n].val]]

\* the document export_board writes for a board
Exported(board) ==
    [id |-> board.id, name |-> board.name, projects |-> board.projects,
     issues |-> JsonDict(board.issues), sprints |-> JsonDict(board.sprints)]

export_board(b) ==
    IF b \notin DOMAIN boards
    THEN Raises("export_board", b, NoArg, NoArg)
    ELSE /\ call' = Called("export_board", b, NoArg, NoArg, "ok")
         /\ ret' = Exported(boards[b])
         /\ UNCHANGED <<_id_counter, boards, users, now, returned>>

\* d.get(k, default)
Field(d, k, default) == IF k \in DOMAIN d THEN d[k] ELSE default

\* Comment(**c) at clock reading t
ImportedComment(c, t) == Comment(c.id, c.author_id, c.body, Field(c, "created_at", t))

\* the Issue import_board builds from entry iid, idata at clock reading t
ImportedIssue(iid, idata, t) ==
    [id |-> int(iid),
     title |-> idata.title,
     description |-> Field(idata, "description", ""),
     status |-> Field(idata, "status", DefaultStatus),
     assignee_id |-> Field(idata, "assignee_id", None),
     labels |-> Field(idata, "labels", <<>>),
     priority |-> Field(idata, "priority", DefaultPriority),
     comments |-> LET cs == Field(idata, "comments", <<>>)
                  IN  [n \in 1..Len(cs) |-> ImportedComment(cs[n], t)],
     created_at |-> Field(idata, "created_at", t),
     updated_at |-> Field(idata, "updated_at", t)]

\* the Sprint import_board builds from entry sid, sdata
ImportedSprint(sid, sdata) ==
    [id |-> int(sid),
     name |-> sdata.name,
     start_at |-> Field(sdata, "start_at", None),
     end_at |-> Field(sdata, "end_at", None),
     issues |-> Field(sdata, "issues", <<>>),
     active |-> Field(sdata, "active", FALSE)]

RECURSIVE ImportedIssues(_, _)
\* board.issues after the first loop of import_board
ImportedIssues(items, t) ==
    IF items = <<>>
    THEN <<>>
    ELSE LET e == items[Len(items)]
         IN  Put(ImportedIssues(SubSeq(items, 1, Len(items) - 1), t),
                 int(e.key), ImportedIssue(e.key, e.val, t))

RECURSIVE ImportedSprints(_)
\* board.sprints after the second loop of import_board
ImportedSprints(items) ==
    IF items = <<>>
    THEN <<>>
    ELSE LET e == items[Len(items)]
         IN  Put(ImportedSprints(SubSeq(items, 1, Len(items) - 1)),
                 int(e.key), ImportedSprint(e.key, e.val))

\* the Board import_board builds from payload; fresh is what _next_id() gave
Imported(payload, fresh, t) ==
    [id |-> Field(payload, "id", fresh),
     name |-> payload.name,
     projects |-> Field(payload, "projects", <<>>),
     issues |-> ImportedIssues(Field(payload, "issues", <<>>), t),
     sprints |-> ImportedSprints(Field(payload, "sprints", <<>>))]

\* payload.get("id", _next_id()) evaluates its default, so every import draws an id
import_board(payload) ==
    /\ LET board == Imported(payload, _next_id, now)
       IN  /\ boards' = (board.id :> board) @@ boards
           /\ call' = CalledWith("import_board", board.id, NoArg, NoArg, "ok", payload)
           /\ ret' = board
    /\ _id_counter' = Advance
    /\ UNCHANGED <<users, now, returned>>

-----------------------------------------------------------------------------
(* The calls a client makes *)

\* identifiers passed as board_id, issue_id, sprint_id: the stored ones and 0, which
\* no entity has (the counter starts at 1)
BoardArgs == DOMAIN boards \cup {0}

IssueIds == UNION {Keys(boards[b].issues) : b \in DOMAIN boards}

IssueArgs == IssueIds \cup {0}

SprintIds == UNION {Keys(boards[b].sprints) : b \in DOMAIN boards}

SprintArgs == SprintIds \cup {0}

\* at most max identifiers are drawn and the clock is read up to MaxTime
Bounded(max) == _id_counter' <= max + 1 /\ now' <= MaxTime

\* labels arguments of create_issue: omitted, one label, the same label twice
LabelArgs == {None, Some(<<"x">>), Some(<<"x", "x">>)}

Priorities == {DefaultPriority, 50}

\* an export written by a manager of another process: a board (1) with an issue (2)
\* and a sprint (3) that holds the issue
ForeignExport ==
    [id |-> 1, name |-> "n", projects |-> <<>>,
     issues |-> <<[key |-> <<"2">>,
                   val |-> NewIssue(2, "t", "", None, None, DefaultPriority, 1, 1)]>>,
     sprints |-> <<[key |-> <<"3">>,
                    val |-> [Sprint(3, "n") EXCEPT !.issues = <<2>>]]>>]

\* a document without the optional keys
BareDocument == [name |-> "n"]

\* the documents given to import_board: an export of a stored board, the export of
\* another process, a document that holds the name only
Documents == {Exported(boards[b]) : b \in DOMAIN boards} \cup {ForeignExport, BareDocument}

\* the calls are made within one reading of the clock
SameReading == now' = now

(* Creation and import: the identifiers *)

\* a step of these behaviours
StepIds(A) == A /\ SameReading /\ Bounded(MaxId)

NextIds ==
    \/ StepIds(create_board("n"))
    \/ StepIds(create_user("n"))
    \/ \E b \in BoardArgs : StepIds(create_issue(b, "t", "", None, None, DefaultPriority))
    \/ \E b \in BoardArgs : StepIds(create_sprint(b, "n"))
    \/ \E b \in BoardArgs, i \in IssueArgs : StepIds(add_comment(b, i, 1, "c"))
    \/ \E payload \in Documents : StepIds(import_board(payload))

SpecIds == Init /\ [][NextIds]_vars

(* Sprint membership: issues and sprints created, linked, unlinked, deleted, imported *)

\* a step of these behaviours
StepSprints(A) == A /\ SameReading /\ Bounded(MaxSprintsId)

NextSprints ==
    \/ StepSprints(create_board("n"))
    \/ \E b \in DOMAIN boards :
          StepSprints(create_issue(b, "t", "", None, None, DefaultPriority))
    \/ \E b \in DOMAIN boards : StepSprints(create_sprint(b, "n"))
    \/ \E b \in DOMAIN boards : \E s \in Keys(boards[b].sprints), i \in IssueArgs :
          StepSprints(add_issue_to_sprint(b, s, i))
    \/ \E b \in DOMAIN boards : \E s \in Keys(boards[b].sprints), i \in IssueArgs :
          StepSprints(remove_issue_from_sprint(b, s, i))
    \/ \E b \in DOMAIN boards, i \in IssueArgs : StepSprints(delete_issue(b, i))
    \/ \E b \in DOMAIN boards : \E i \in Keys(boards[b].issues) :
          StepSprints(update_issue(b, i, <<>>))
    \/ \E payload \in Documents : StepSprints(import_board(payload))

SpecSprints == Init /\ [][NextSprints]_vars

(* The timestamps of an issue *)

\* a step of these behaviours, which keep one board with one issue: what is done to
\* an issue reads no other issue
StepIssues(A) == A /\ Bounded(MaxIssuesId)

NextIssues ==
    \/ StepIssues(boards = <<>> /\ create_board("n"))
    \/ \E b \in DOMAIN boards :
          StepIssues(/\ boards[b].issues = <<>>
                     /\ create_issue(b, "t", "", None, None, DefaultPriority))
    \/ \E b \in DOMAIN boards :
          \E i \in Keys(boards[b].issues), fields \in {<<>>, [updated_at |-> 0]} :
             StepIssues(update_issue(b, i, fields))
    \/ \E b \in DOMAIN boards : \E i \in Keys(boards[b].issues) :
          StepIssues(assign_issue(b, i, Some(1)))
    \/ \E b \in DOMAIN boards : \E i \in Keys(boards[b].issues) :
          StepIssues(move_issue(b, i, "done"))
    \/ \E b \in DOMAIN boards : \E i \in Keys(boards[b].issues) :
          StepIssues(prioritize_issue(b, i, 50))
    \/ \E b \in DOMAIN boards : \E i \in Keys(boards[b].issues) :
          StepIssues(add_label(b, i, "x"))
    \/ \E b \in DOMAIN boards : \E i \in Keys(boards[b].issues) :
          StepIssues(remove_label(b, i, "x"))
    \/ \E b \in DOMAIN boards : \E i \in Keys(boards[b].issues) :
          StepIssues(add_comment(b, i, 1, "c"))
    \/ StepIssues(Tick)

SpecIssues == Init /\ [][NextIssues]_vars

(* The fields of an issue and of a board: what create_issue and update_issue are
   given, labels, projects, comments, and the round trip through a document *)

\* **fields of update_issue
FieldArgs ==
    {<<>>, [id |-> 9], [labels |-> <<"y", "y">>], [comments |-> <<>>], [nonsense |-> 1]}

\* a step of these behaviours
StepFields(A) == A /\ SameReading /\ Bounded(MaxFieldsId)

NextFields ==
    \/ StepFields(create_board("n"))
    \/ \E b \in DOMAIN boards, labels \in LabelArgs :
          StepFields(create_issue(b, "t", "", None, labels, DefaultPriority))
    \/ \E b \in DOMAIN boards : \E i \in Keys(boards[b].issues), fields \in FieldArgs :
          StepFields(update_issue(b, i, fields))
    \/ \E b \in DOMAIN boards : \E i \in Keys(boards[b].issues) :
          StepFields(add_label(b, i, "x"))
    \/ \E b \in DOMAIN boards : \E i \in Keys(boards[b].issues) :
          StepFields(remove_label(b, i, "x"))
    \/ \E b \in DOMAIN boards : \E i \in Keys(boards[b].issues) :
          StepFields(add_comment(b, i, 1, "c"))
    \/ \E b \in DOMAIN boards : StepFields(add_project(b, "p"))
    \/ \E b \in DOMAIN boards : StepFields(import_board(Exported(boards[b])))

SpecFields == Init /\ [][NextFields]_vars

(* Every operation, with stored and unknown identifiers; the values passed are the
   defaults, so that the states differ in what is stored and in the call made *)

\* a step of these behaviours
StepErrors(A) == A /\ SameReading /\ Bounded(MaxErrorsId)

NextErrors ==
    \/ StepErrors(create_board("n"))
    \/ \E b \in BoardArgs : StepErrors(add_project(b, "p"))
    \/ \E b \in BoardArgs : StepErrors(create_issue(b, "t", "", None, None, DefaultPriority))
    \/ \E b \in BoardArgs, i \in IssueArgs : StepErrors(get_issue(b, i))
    \/ \E b \in BoardArgs, i \in IssueArgs : StepErrors(update_issue(b, i, <<>>))
    \/ \E b \in BoardArgs, i \in IssueArgs : StepErrors(delete_issue(b, i))
    \/ \E b \in BoardArgs : StepErrors(list_issues(b, None, None, None, FALSE))
    \/ \E b \in BoardArgs, i \in IssueArgs : StepErrors(assign_issue(b, i, None))
    \/ \E b \in BoardArgs, i \in IssueArgs : StepErrors(add_label(b, i, "x"))
    \/ \E b \in BoardArgs, i \in IssueArgs : StepErrors(remove_label(b, i, "x"))
    \/ \E b \in BoardArgs, i \in IssueArgs : StepErrors(add_comment(b, i, 1, "c"))
    \/ \E b \in BoardArgs, i \in IssueArgs : StepErrors(move_issue(b, i, DefaultStatus))
    \/ \E b \in BoardArgs, i \in IssueArgs :
          StepErrors(prioritize_issue(b, i, DefaultPriority))
    \/ \E b \in BoardArgs : StepErrors(create_sprint(b, "n"))
    \/ \E b \in BoardArgs, s \in SprintArgs, i \in IssueArgs :
          StepErrors(add_issue_to_sprint(b, s, i))
    \/ \E b \in BoardArgs, s \in SprintArgs, i \in IssueArgs :
          StepErrors(remove_issue_from_sprint(b, s, i))
    \/ \E b \in BoardArgs, s \in SprintArgs : StepErrors(start_sprint(b, s))
    \/ \E b \in BoardArgs, s \in SprintArgs : StepErrors(close_sprint(b, s))
    \/ \E b \in BoardArgs : StepErrors(export_board(b))

SpecErrors == Init /\ [][NextErrors]_vars

(* The run of a sprint *)

\* a step of these behaviours
StepSprintRuns(A) == A /\ Bounded(MaxSprintsId)

NextSprintRuns ==
    \/ StepSprintRuns(create_board("n"))
    \/ \E b \in DOMAIN boards : StepSprintRuns(create_sprint(b, "n"))
    \/ \E b \in DOMAIN boards : \E s \in Keys(boards[b].sprints) :
          StepSprintRuns(start_sprint(b, s))
    \/ \E b \in DOMAIN boards : \E s \in Keys(boards[b].sprints) :
          StepSprintRuns(close_sprint(b, s))
    \/ StepSprintRuns(Tick)

SpecSprintRuns == Init /\ [][NextSprintRuns]_vars

(* Listing the issues of a board *)

\* a step of these behaviours
StepListing(A) == A /\ SameReading /\ Bounded(MaxId)

NextListing ==
    \/ StepListing(create_board("n"))
    \/ \E b \in DOMAIN boards, priority \in Priorities :
          StepListing(create_issue(b, "t", "", None, None, priority))
    \/ \E b \in DOMAIN boards : \E i \in Keys(boards[b].issues), priority \in Priorities :
          StepListing(prioritize_issue(b, i, priority))
    \/ \E b \in DOMAIN boards : \E i \in Keys(boards[b].issues) :
          StepListing(move_issue(b, i, "done"))
    \/ \E b \in DOMAIN boards : \E i \in Keys(boards[b].issues) :
          StepListing(delete_issue(b, i))
    \/ \E b \in DOMAIN boards, status \in {None, Some("done")}, sort_by_priority \in BOOLEAN :
          StepListing(list_issues(b, status, None, None, sort_by_priority))

SpecListing == Init /\ [][NextListing]_vars

(* The filters of list_issues: issues that differ in status, assignee and labels *)

\* status arguments of list_issues: omitted, a status, the empty string
StatusArgs == {None, Some(DefaultStatus), Some("")}

\* assignee_id arguments: omitted, a user id
AssigneeArgs == {None, Some(1)}

\* labels arguments of list_issues: omitted, empty, one label, two labels
LabelFilters == {None, Some(<<>>), Some(<<"x">>), Some(<<"x", "y">>)}

\* a step of these behaviours, on one board
StepFilters(A) == A /\ SameReading /\ Bounded(MaxFiltersId)

NextFilters ==
    \/ StepFilters(boards = <<>> /\ create_board("n"))
    \/ \E b \in DOMAIN boards, assignee_id \in AssigneeArgs,
          labels \in {None, Some(<<"x">>), Some(<<"x", "y">>)} :
          StepFilters(create_issue(b, "t", "", assignee_id, labels, DefaultPriority))
    \/ \E b \in DOMAIN boards : \E i \in Keys(boards[b].issues) :
          StepFilters(move_issue(b, i, ""))
    \/ \E b \in DOMAIN boards, status \in StatusArgs, assignee_id \in AssigneeArgs,
          labels \in LabelFilters :
          StepFilters(list_issues(b, status, assignee_id, labels, FALSE))

SpecFilters == Init /\ [][NextFilters]_vars

(* update_issue on the issues of a board, while time passes *)

\* **fields of update_issue: none, an unknown key, a known and an unknown key, the
\* timestamp itself
UpdateArgs ==
    {<<>>, [nonsense |-> 1], [status |-> "done", nonsense |-> 1], [updated_at |-> 0]}

\* a step of these behaviours, on one board
StepUpdates(A) == A /\ Bounded(MaxUpdatesId)

NextUpdates ==
    \/ StepUpdates(boards = <<>> /\ create_board("n"))
    \/ \E b \in DOMAIN boards :
          StepUpdates(create_issue(b, "t", "", None, None, DefaultPriority))
    \/ \E b \in DOMAIN boards : \E i \in Keys(boards[b].issues), fields \in UpdateArgs :
          StepUpdates(update_issue(b, i, fields))
    \/ StepUpdates(Tick)

SpecUpdates == Init /\ [][NextUpdates]_vars

-----------------------------------------------------------------------------
(* Identifiers *)

\* C1: the identifiers returned by the successful create_board, create_user,
\* create_issue, create_sprint and add_comment calls are strictly increasing in call
\* order (so pairwise distinct), whatever calls failed or imported in between.
C1_ReturnedIdsIncrease ==
    \A m, n \in 1..Len(returned) : m < n => returned[m] < returned[n]

\* ids of three kinds were returned and the last call failed on an unknown id
C1_Witness ==
    /\ Len(returned) >= 3
    /\ users # <<>>
    /\ IssueIds # {}
    /\ call.err = "KeyError"

\* the stored entities: boards, users, issues, sprints and comments, each named by its
\* kind and its place in the store
Entities ==
    {<<"board", b>> : b \in DOMAIN boards}
    \cup {<<"user", u>> : u \in DOMAIN users}
    \cup UNION {{<<"issue", b, k>> : k \in Keys(boards[b].issues)} : b \in DOMAIN boards}
    \cup UNION {{<<"sprint", b, k>> : k \in Keys(boards[b].sprints)} : b \in DOMAIN boards}
    \cup UNION {UNION {{<<"comment", b, k, n>> :
                           n \in 1..Len(Get(boards[b].issues, k).comments)} :
                       k \in Keys(boards[b].issues)} : b \in DOMAIN boards}

\* the identifier an entity is stored under (a comment's is its id field)
IdOf(e) ==
    IF e[1] = "comment"
    THEN Get(boards[e[2]].issues, e[3]).comments[e[4]].id
    ELSE e[Len(e)]

\* C2: in every reachable state the identifiers of the stored boards, users, issues,
\* sprints and comments are pairwise distinct, import_board included.
C2_StoredIdsDistinct ==
    \A e1, e2 \in Entities : e1 # e2 => IdOf(e1) # IdOf(e2)

-----------------------------------------------------------------------------
(* Sprint membership *)

-----------------------------------------------------------------------------
(* The fields of an issue *)

\* C5: import_board(export_board(b)) yields a Board equal to the stored one in every
\* field of the board, of its issues (comments included) and of its sprints, under
\* the same integer keys.
C5_RoundTrip ==
    \A b \in DOMAIN boards : Imported(Exported(boards[b]), _next_id, now) = boards[b]

\* a list without a value that occurs twice
NoDuplicates(list) == \A m, n \in 1..Len(list) : m # n => list[m] # list[n]

\* C6: no Issue's labels and no Board's projects hold a value twice.
C6_NoDuplicateLabels ==
    \A b \in DOMAIN boards :
        /\ NoDuplicates(boards[b].projects)
        /\ \A n \in 1..Len(boards[b].issues) : NoDuplicates(boards[b].issues[n].val.labels)

\* the operations that set updated_at whenever they succeed
Refreshing == {"move_issue", "prioritize_issue", "assign_issue", "update_issue", "add_comment"}

\* C7: with a clock that never goes back, an Issue's updated_at never decreases, and
\* it is the current time after move_issue, prioritize_issue, assign_issue,
\* update_issue and add_comment, and after add_label / remove_label when they change
\* the labels.
C7_UpdatedAtRefreshed ==
    [][\A b \in DOMAIN boards \cap DOMAIN boards' :
          \A i \in Keys(boards[b].issues) \cap Keys(boards'[b].issues) :
             LET old == Get(boards[b].issues, i)
                 new == Get(boards'[b].issues, i)
             IN  /\ new.updated_at >= old.updated_at
                 /\ (/\ call'.err = "ok"
                     /\ \/ call'.op \in Refreshing
                        \/ call'.op \in {"add_label", "remove_label"} /\ new.labels # old.labels
                     /\ call'.b = b
                     /\ call'.i = i)
                    => new.updated_at = now']_vars

\* remove_label has just changed an issue that was created two readings earlier, was
\* moved and holds a comment
C7_Witness ==
    /\ call.op = "remove_label"
    /\ call.err = "ok"
    /\ LET issue == Get(boards[call.b].issues, call.i)
       IN  /\ issue.created_at + 2 = issue.updated_at
           /\ issue.updated_at = now
           /\ issue.status = "done"
           /\ issue.comments # <<>>
           /\ issue.labels = <<>>

-----------------------------------------------------------------------------
(* Failures *)

\* the operations that look up board_id, those that go on to look up issue_id through
\* get_issue, and those that go on to look up sprint_id
ByBoard ==
    {"add_project", "create_issue", "delete_issue", "list_issues", "create_sprint",
     "export_board"}

ByIssue ==
    {"get_issue", "update_issue", "assign_issue", "move_issue", "prioritize_issue",
     "add_label", "remove_label", "add_comment"}

BySprint == {"add_issue_to_sprint", "remove_issue_from_sprint", "start_sprint", "close_sprint"}

\* C8: get_issue fails (KeyError, the NotFound of the store) when board_id is no
\* stored board and when issue_id is no key of that board's issues; so does every
\* operation that looks up a board_id, a sprint_id, or an issue_id through get_issue,
\* when that identifier is absent.
C8_MissingKeyFails ==
    [][/\ (call'.op \in ByBoard \cup ByIssue \cup BySprint /\ call'.b \notin DOMAIN boards)
             => call'.err = "KeyError"
       /\ (call'.op \in ByIssue /\ call'.b \in DOMAIN boards
              /\ ~Has(boards[call'.b].issues, call'.i))
             => call'.err = "KeyError"
       /\ (call'.op \in BySprint /\ call'.b \in DOMAIN boards
              /\ ~Has(boards[call'.b].sprints, call'.s))
             => call'.err = "KeyError"]_vars

\* get_issue has failed on a stored board that holds issues, none under the id asked for
C8_Witness ==
    /\ call.op = "get_issue"
    /\ call.err = "KeyError"
    /\ call.b \in DOMAIN boards
    /\ boards[call.b].issues # <<>>

-----------------------------------------------------------------------------
(* The run of a sprint *)

\* C9: start_sprint sets active and sets start_at to the current time only when it
\* was unset (a later start_sprint, also after close_sprint, keeps it); close_sprint
\* clears active and sets end_at to the current time on every call.
C9_StartOnceCloseAlways ==
    [][(call'.op \in {"start_sprint", "close_sprint"} /\ call'.err = "ok") =>
          LET old == Get(boards[call'.b].sprints, call'.s)
              new == Get(boards'[call'.b].sprints, call'.s)
          IN  IF call'.op = "start_sprint"
              THEN /\ new.active
                   /\ new.start_at = IF old.start_at = None THEN Some(now) ELSE old.start_at
                   /\ new.end_at = old.end_at
              ELSE /\ ~new.active
                   /\ new.end_at = Some(now)
                   /\ new.start_at = old.start_at]_vars

\* a sprint started at reading 1 and closed at reading 2 has been started again at
\* reading 3
C9_Witness ==
    /\ call.op = "start_sprint"
    /\ call.err = "ok"
    /\ now = 3
    /\ LET sprint == Get(boards[call.b].sprints, call.s)
       IN  sprint.start_at = Some(1) /\ sprint.end_at = Some(2) /\ sprint.active

-----------------------------------------------------------------------------
(* Listing *)

\* C10: list_issues with sort_by_priority returns the issues that pass the filters in
\* ascending priority, those of equal priority in creation order (the order of their
\* identifiers), each once.
C10_SortedStable ==
    (call.op = "list_issues" /\ call.err = "ok" /\ call.args.sort_by_priority) =>
        /\ \A m, n \in 1..Len(ret) :
              m < n =>
                 \/ ret[m].val.priority < ret[n].val.priority
                 \/ ret[m].val.priority = ret[n].val.priority /\ ret[m].key < ret[n].key
        /\ {ret[n] : n \in 1..Len(ret)} =
              {e \in {boards[call.b].issues[n] : n \in 1..Len(boards[call.b].issues)} :
                  call.args.status = None \/ e.val.status = call.args.status[1]}

\* a sorted listing of three issues: the first created has the larger priority, the
\* other two the same, smaller one
C10_Witness ==
    /\ call.op = "list_issues"
    /\ call.err = "ok"
    /\ call.args.sort_by_priority
    /\ Len(ret) = 3
    /\ ret[1].val.priority = ret[2].val.priority
    /\ ret[3].key < ret[1].key

\* the entries of the board's issues that pass the filters that apply, applies telling
\* for the status whether it is one
Matching(board, args, applies) ==
    {e \in {board.issues[n] : n \in 1..Len(board.issues)} :
        /\ applies => e.val.status = args.status[1]
        /\ args.assignee_id # None => e.val.assignee_id = args.assignee_id
        /\ args.labels # None =>
               \A n \in 1..Len(args.labels[1]) : In(args.labels[1][n], e.val.labels)}

\* the entries list_issues returned
Returned == {ret[n] : n \in 1..Len(ret)}

\* C11 as stated: list_issues returns exactly the issues of the board that satisfy
\* every filter that was given (status equal, assignee_id equal, every given label
\* held), a status given as the empty string included.
C11_GivenFiltersAll ==
    (call.op = "list_issues" /\ call.err = "ok") =>
        Returned = Matching(boards[call.b], call.args, call.args.status # None)

\* C11: list_issues returns exactly the issues of the board, each once, that satisfy
\* every filter that was given, where a status given as the empty string is no filter:
\* status equal to a non-empty given status, assignee_id equal to the given one, and
\* every given label held.
C11_NonEmptyFiltersAll ==
    (call.op = "list_issues" /\ call.err = "ok") =>
        /\ Returned = Matching(boards[call.b], call.args,
                          call.args.status # None /\ call.args.status[1] # "")
        /\ Len(ret) = Cardinality(Returned)

\* a listing with all three filters given has returned one of two issues that pass the
\* status and assignee filters; the other holds one of the two labels only
C11_Witness ==
    /\ call.op = "list_issues"
    /\ call.err = "ok"
    /\ call.args.status = Some(DefaultStatus)
    /\ call.args.assignee_id = Some(1)
    /\ call.args.labels = Some(<<"x", "y">>)
    /\ Len(ret) = 1
    /\ \E n \in 1..Len(boards[call.b].issues) :
          LET issue == boards[call.b].issues[n].val
          IN  /\ issue.status = DefaultStatus
              /\ issue.assignee_id = Some(1)
              /\ issue.labels = <<"x">>

-----------------------------------------------------------------------------
(* Labels *)

\* C12: after add_label(b, i, l) the Issue holds l, and an add_label(b, i, l) that
\* finds l held (as the second of two such calls does, at once or at a later reading
\* of the clock) leaves the manager as it was: same labels, same updated_at, nothing
\* else touched; so does a remove_label of a label the Issue does not hold.
C12_LabelIdempotent ==
    [][(call'.op \in {"add_label", "remove_label"} /\ call'.err = "ok") =>
          LET old == Get(boards[call'.b].issues, call'.i)
              new == Get(boards'[call'.b].issues, call'.i)
              held == In(call'.args, old.labels)
          IN  /\ call'.op = "add_label" => In(call'.args, new.labels)
              /\ (held <=> call'.op = "add_label") =>
                    UNCHANGED <<boards, users, _id_counter, returned>>
              /\ (call.op = "add_label" /\ call.err = "ok" /\ call'.op = "add_label"
                     /\ call.b = call'.b /\ call.i = call'.i /\ call.args = call'.args)
                    => UNCHANGED <<boards, users, _id_counter, returned>>]_vars

\* add_label has been called at a reading later than the Issue's updated_at, on an
\* Issue that held the label
C12_Witness ==
    /\ call.op = "add_label"
    /\ call.err = "ok"
    /\ LET issue == Get(boards[call.b].issues, call.i)
       IN  /\ issue.updated_at < now
           /\ In(call.args, issue.labels)

-----------------------------------------------------------------------------
(* What update_issue may change *)

\* C13: an identifier is never changed after creation: every key k of a Board's
\* issues map holds an Issue whose id is k, whatever operations were called,
\* update_issue with any field names included.
C13_IssueIdIsKey ==
    \A b \in DOMAIN boards : \A n \in 1..Len(boards[b].issues) :
        boards[b].issues[n].val.id = boards[b].issues[n].key

\* s is a prefix of t
IsPrefix(s, t) == Len(s) <= Len(t) /\ SubSeq(t, 1, Len(s)) = s

\* C14: an Issue's comments are append-only: as long as the Issue exists, its
\* comments before a step are a prefix of its comments after it, whatever operation
\* was called (add_comment, update_issue with any fields, label changes).
C14_CommentsAppendOnly ==
    [][\A b \in DOMAIN boards \cap DOMAIN boards' :
          \A i \in Keys(boards[b].issues) \cap Keys(boards'[b].issues) :
             IsPrefix(Get(boards[b].issues, i).comments,
                      Get(boards'[b].issues, i).comments)]_vars

\* C15: a successful update_issue leaves the Issue with exactly its attributes, each
\* given one set to the given value, updated_at set to the current time (also when
\* no key or only unknown keys are given), the others as they were; unknown keys
\* raise nothing; every other Issue, the keys of the board and the rest of the
\* manager stay as they were.
C15_UpdateFrame ==
    [][call'.op = "update_issue" =>
          LET b == call'.b
              i == call'.i
              fields == call'.args
          IN  CanGetIssue(b, i) =>
                /\ call'.err = "ok"
                /\ Get(boards'[b].issues, i) =
                      [k \in IssueAttrs |->
                          IF k = "updated_at" THEN now'
                          ELSE IF k \in DOMAIN fields THEN fields[k]
                          ELSE Get(boards[b].issues, i)[k]]
                /\ Len(boards'[b].issues) = Len(boards[b].issues)
                /\ \A n \in 1..Len(boards[b].issues) :
                      /\ boards'[b].issues[n].key = boards[b].issues[n].key
                      /\ boards[b].issues[n].key # i =>
                            boards'[b].issues[n] = boards[b].issues[n]
                /\ boards' = [boards EXCEPT ![b].issues = boards'[b].issues]
                /\ UNCHANGED <<users, _id_counter, returned>>]_vars

\* update_issue with an unknown key only has stamped the first of two issues at a
\* reading later than its creation; the second issue is of that later reading too
C15_Witness ==
    /\ call.op = "update_issue"
    /\ call.err = "ok"
    /\ call.args = [nonsense |-> 1]
    /\ Len(boards[call.b].issues) = 2
    /\ boards[call.b].issues[1].key = call.i
    /\ boards[call.b].issues[1].val.created_at < now
    /\ boards[call.b].issues[1].val.updated_at = now

-----------------------------------------------------------------------------
(* Linking issues to sprints *)

\* C16: add_issue_to_sprint on a stored sprint raises nothing; it appends issue_id to
\* the Sprint's list when the Board holds the issue and the list does not, and leaves
\* the whole state as it was otherwise; and no Sprint's issues list ever holds an
\* identifier twice.
C16_LinkOnceIfStored ==
    [][/\ \A b \in DOMAIN boards' : \A n \in 1..Len(boards'[b].sprints) :
             NoDuplicates(boards'[b].sprints[n].val.issues)
       /\ (call'.op = "add_issue_to_sprint" /\ CanGetSprint(call'.b, call'.s)) =>
             LET b == call'.b
                 i == call'.i
                 old == Get(boards[b].sprints, call'.s)
             IN  /\ call'.err = "ok"
                 /\ UNCHANGED <<users, _id_counter, returned>>
                 /\ boards' =
                       IF Has(boards[b].issues, i) /\ ~In(i, old.issues)
                       THEN WithSprint(b, call'.s, [old EXCEPT !.issues = Append(@, i)])
                       ELSE boards]_vars

\* add_issue_to_sprint has been called with an identifier the board does not hold, on
\* a sprint that lists an issue
C16_Witness ==
    /\ call.op = "add_issue_to_sprint"
    /\ call.err = "ok"
    /\ Get(boards[call.b].sprints, call.s).issues # <<>>
    /\ ~Has(boards[call.b].issues, call.i)

-----------------------------------------------------------------------------
(* import_board and the generator *)

\* C17: import_board of a document that carries an id registers the Board under that
\* id and leaves the identifier generator as it was, so that the next create_* call
\* returns what it would have returned without the import.
C17_ImportKeepsGenerator ==
    [][(call'.op = "import_board" /\ "id" \in DOMAIN call'.args) =>
          /\ call'.args.id \in DOMAIN boards'
          /\ boards'[call'.args.id].id = call'.args.id
          /\ _next_id' = _next_id]_vars

-----------------------------------------------------------------------------
(* Deleting what is not there *)

\* C18: delete_issue(b, i) on a stored board b whose issues map has no key i raises
\* nothing and leaves the whole manager as it was: the issues map, every Sprint's
\* issues list, the other boards, the users and the identifier generator.
C18_DeleteAbsentNoOp ==
    [][(/\ call'.op = "delete_issue"
        /\ call'.b \in DOMAIN boards
        /\ ~Has(boards[call'.b].issues, call'.i)) =>
          /\ call'.err = "ok"
          /\ UNCHANGED <<boards, users, _id_counter, returned>>]_vars

\* delete_issue has been called with an identifier no entity ever had, on a board
\* that holds an issue and a sprint that lists it
C18_Witness ==
    /\ call.op = "delete_issue"
    /\ call.err = "ok"
    /\ call.i < 1
    /\ boards[call.b].issues # <<>>
    /\ \E n \in 1..Len(boards[call.b].sprints) :
          boards[call.b].sprints[n].val.issues # <<>>

\* C19: a call that fails with KeyError on an absent board_id, issue_id or sprint_id
\* leaves the manager as it was before the call: no entity created or changed, no
\* identifier drawn from the generator.
C19_FailureChangesNothing ==
    [][call'.err = "KeyError" => UNCHANGED <<boards, users, _id_counter, returned>>]_vars

\* add_comment has failed on an issue_id its board does not hold, on a board that
\* holds an issue
C19_Witness ==
    /\ call.op = "add_comment"
    /\ call.err = "KeyError"
    /\ call.b \in DOMAIN boards
    /\ boards[call.b].issues # <<>>
    /\ ~Has(boards[call.b].issues, call.i)

-----------------------------------------------------------------------------
(* The life of a sprint *)

\* C20: for a Sprint made by create_sprint and changed by start_sprint and
\* close_sprint only: an active Sprint has its start_at set; start_at, once set,
\* never changes; end_at is set exactly when close_sprint was called on the Sprint
\* at least once (unset at creation, set by every close_sprint, and by nothing else,
\* and never unset again).
C20_SprintLife ==
    [][\A b \in DOMAIN boards' : \A n \in 1..Len(boards'[b].sprints) :
          LET s == boards'[b].sprints[n].key
              new == boards'[b].sprints[n].val
              closing == /\ call'.op = "close_sprint"
                         /\ call'.err = "ok"
                         /\ call'.b = b
                         /\ call'.s = s
          IN  /\ new.active => new.start_at # None
              /\ IF CanGetSprint(b, s)
                 THEN LET old == Get(boards[b].sprints, s)
                      IN  /\ old.start_at # None => new.start_at = old.start_at
                          /\ new.end_at # None <=> (old.end_at # None \/ closing)
                 ELSE new.end_at = None /\ new.start_at = None /\ ~new.active]_vars

\* close_sprint has closed a sprint that was never started, while another sprint of
\* the board is running
C20_Witness ==
    /\ call.op = "close_sprint"
    /\ call.err = "ok"
    /\ LET sprint == Get(boards[call.b].sprints, call.s)
       IN  sprint.start_at = None /\ sprint.end_at = Some(now) /\ ~sprint.active
    /\ \E n \in 1..Len(boards[call.b].sprints) :
          LET other == boards[call.b].sprints[n].val
          IN  other.active /\ other.start_at # None /\ other.end_at = None

====
